---- MODULE Spec2Model ----
(***************************************************************************)
(* Model of src/main.py: the router configuration updater.  One process   *)
(* per run of main(); the runs share the filesystem (lock marker, active,  *)
(* staged and backup configuration), the bird daemon and the controller.   *)
(*                                                                         *)
(* Four specifications:                                                    *)
(*   Spec      main() from process start, NumProcs runs interleaved.       *)
(*             create_lock (line 120) evaluates remove_lock(lock) and      *)
(*             hands its result, None, to atexit.register, which raises    *)
(*             TypeError: no run gets past line 329.                       *)
(*   SpecBody  the statements of main() from line 331 on, entered at the   *)
(*             return of create_lock, one run after the other.             *)
(*   SpecFn    the functions one at a time: main() entered at the call of  *)
(*             a function, its arguments and the files drawn from sets.    *)
(*   SpecFresh SpecBody for a handle with no active file and no backup.    *)
(***************************************************************************)
EXTENDS Integers, Sequences, FiniteSets, TLC

\* Number of runs of main(): interleaved under Spec, consecutive under SpecBody.
NumProcs == 3

\* Cap on the report-done attempts one run makes that the controller
\* answers with an HTTP error status (the loop of inform_ixp_manager is unbounded).
MaxAttempts == 2

\* Longest configuration, in lines, that a function is called on under SpecFn.
MaxLines == 2

Procs == 1..NumProcs

\* os.getpid(): distinct per process.
getpid(p) == p

VARIABLES
    lockFile,        \* <LOCK_PATH>/<handle>.lock
    files,           \* cfile, dest (= cfile + ".$$"), old (= cfile + ".old"), failed
    pc,              \* position of each run
    exitCode,        \* process exit status, -1 while running
    args,            \* parsed command line of each run
    lockFd,          \* the run's open file object still names the marker's path
    reload_required, \* local of main()
    attempts,        \* failed report-done attempts so far
    daemon,          \* bird is running on the control socket
    hist             \* what each run has done, in order (observation only)

vars == <<lockFile, files, pc, exitCode, args, lockFd, reload_required,
          attempts, daemon, hist>>

----------------------------------------------------------------------------
\* Files

NoFile == [exists |-> FALSE, data |-> <<>>]
File(d) == [exists |-> TRUE, data |-> d]

ConfigPaths == {"cfile", "dest", "old", "failed"}

\* Lines a configuration is made of.
BgpLine == "protocol bgp pb_as1 {}"
CommentLine == "# generated"
BlankLine == ""
OtherLine == "log syslog all;"
BrokenLine == "protocol {"

\* line.count("protocol bgp pb_")
MarkerCount(line) == IF line = BgpLine THEN 1 ELSE 0

\* line.strip() == ""
StripsToEmpty(line) == line = BlankLine

\* Response bodies the controller may serve.
Bodies ==
    { <<>>,
      <<BgpLine>>,
      <<BgpLine, BgpLine>>,
      <<CommentLine, BgpLine, BgpLine>>,
      <<BgpLine, BlankLine, BgpLine>>,
      <<BgpLine, BgpLine, OtherLine>>,
      <<BgpLine, BgpLine, BrokenLine>> }

\* os.path.getsize: every line carries its newline.
getsize(f) == Len(f.data)

RECURSIVE count(_)
\* contents.count("protocol bgp pb_")
count(contents) ==
    IF contents = <<>> THEN 0
    ELSE MarkerCount(Head(contents)) + count(Tail(contents))

\* Exit status of `bird -p -c <file>`: 0 iff the daemon's parser accepts it.
BirdParses(contents) == \A i \in 1..Len(contents) : contents[i] # BrokenLine

\* Content that passes the three checks of lines 335-336.
Validated(contents) ==
    /\ Len(contents) > 0
    /\ count(contents) >= 2
    /\ BirdParses(contents)

----------------------------------------------------------------------------
\* Process exit

\* sys.exit(code); an uncaught exception ends the interpreter with status 1,
\* sys.exit() without an argument with status 0.
Exit(p, code, event) ==
    /\ pc' = [pc EXCEPT ![p] = "exited"]
    /\ exitCode' = [exitCode EXCEPT ![p] = code]
    /\ hist' = [hist EXCEPT ![p] = Append(@, event)]

\* Variant of MainSequence: the change detector runs before the syntax check.
MainSequence_PromotesEarly ==
    << "parse_args", "create_directories", "create_lock", "get_lock",
       "get_config", "is_valid_file", "detect_change", "parse_config",
       "reload_if_needed", "inform_ixp_manager", "sys_exit" >>

\* The order of the calls in main().
MainSequence ==
    << "parse_args", "create_directories", "create_lock", "get_lock",
       "get_config", "is_valid_file", "parse_config", "detect_change",
       "reload_if_needed", "inform_ixp_manager", "sys_exit" >>

\* The statement main() continues with when `stage` returns.
Return(stage) ==
    LET i == CHOOSE k \in 1..Len(MainSequence) : MainSequence[k] = stage
    IN  MainSequence[i + 1]

Goto(p, stage) ==
    /\ pc' = [pc EXCEPT ![p] = stage]
    /\ UNCHANGED <<exitCode, hist>>

GotoLog(p, stage, event) ==
    /\ pc' = [pc EXCEPT ![p] = stage]
    /\ hist' = [hist EXCEPT ![p] = Append(@, event)]
    /\ UNCHANGED exitCode

----------------------------------------------------------------------------
\* main(), lines 305-329

\* Lines 310-320: -f sets force_reload, a missing -H ends the run with 1.
ParseArgs(p) ==
    /\ pc[p] = "parse_args"
    /\ \E handle \in BOOLEAN, force \in BOOLEAN :
        /\ args' = [args EXCEPT ![p] = [handle |-> handle, force |-> force]]
        /\ IF handle
              THEN Goto(p, Return("parse_args"))
              ELSE Exit(p, 1, "no_handle")
    /\ UNCHANGED <<lockFile, files, lockFd, reload_required, attempts, daemon>>

\* Lines 92-101: an OSError ends the run with sys.exit(), status 0.
CreateDirectories(p) ==
    /\ pc[p] = "create_directories"
    /\ \E oserror \in BOOLEAN :
        IF oserror
           THEN Exit(p, 0, "mkdir_failed")
           ELSE Goto(p, Return("create_directories"))
    /\ UNCHANGED <<lockFile, files, args, lockFd, reload_required, attempts, daemon>>

----------------------------------------------------------------------------
\* create_lock and remove_lock, lines 105-120

\* Variant of CreateLockExists: the marker is taken over instead of respected.
CreateLockExists_TakesOver(p) ==
    /\ pc[p] = "create_lock"
    /\ Goto(p, "create_lock_open")
    /\ UNCHANGED <<lockFile, files, args, lockFd, reload_required, attempts, daemon>>

\* Line 111: os.path.exists(lock); lines 112-115 when it does.
CreateLockExists(p) ==
    /\ pc[p] = "create_lock"
    /\ IF lockFile.exists
          THEN Exit(p, 1, "lock_held")
          ELSE Goto(p, "create_lock_open")
    /\ UNCHANGED <<lockFile, files, args, lockFd, reload_required, attempts, daemon>>

\* Line 118: open(lock, "w") creates the marker, or truncates the one there.
CreateLockOpen(p) ==
    /\ pc[p] = "create_lock_open"
    /\ lockFile' = File(<<>>)
    /\ lockFd' = [lockFd EXCEPT ![p] = TRUE]
    /\ Goto(p, "create_lock_write")
    /\ UNCHANGED <<files, args, reload_required, attempts, daemon>>

\* Line 119 and the end of the with block: str(process_id) reaches the file
\* the descriptor names, which is the marker unless it was unlinked meanwhile.
CreateLockWrite(p) ==
    /\ pc[p] = "create_lock_write"
    /\ lockFile' = IF lockFd[p] THEN File(<<getpid(p)>>) ELSE lockFile
    /\ lockFd' = [lockFd EXCEPT ![p] = FALSE]
    /\ GotoLog(p, "remove_lock", "marker_written")
    /\ UNCHANGED <<files, args, reload_required, attempts, daemon>>

\* Line 120 evaluates its argument remove_lock(lock) first; line 106.
RemoveLockExists(p) ==
    /\ pc[p] = "remove_lock"
    /\ IF lockFile.exists
          THEN Goto(p, "os_remove")
          ELSE Goto(p, "atexit_register")
    /\ UNCHANGED <<lockFile, files, args, lockFd, reload_required, attempts, daemon>>

\* Variant of RemoveLockRemove: the marker is left on disk.
RemoveLockRemove_LeavesMarker(p) ==
    /\ pc[p] = "os_remove"
    /\ Goto(p, "atexit_register")
    /\ UNCHANGED <<lockFile, files, args, lockFd, reload_required, attempts, daemon>>

\* Line 107: os.remove(lock); FileNotFoundError is not caught.
RemoveLockRemove(p) ==
    /\ pc[p] = "os_remove"
    /\ IF lockFile.exists
          THEN /\ lockFile' = NoFile
               /\ lockFd' = [q \in Procs |-> FALSE]
               /\ GotoLog(p, "atexit_register", "marker_removed")
          ELSE /\ Exit(p, 1, "FileNotFoundError")
               /\ UNCHANGED <<lockFile, lockFd>>
    /\ UNCHANGED <<files, args, reload_required, attempts, daemon>>

\* What line 120 passes to atexit.register: the value remove_lock returns.
remove_lock_returns == "None"

\* callable(x), for the values line 120 can pass.
Callable(x) == x = "function"

\* Line 120: atexit.register raises TypeError unless its argument is callable;
\* nothing catches it.  With a callable it registers and create_lock returns.
AtexitRegister(p) ==
    /\ pc[p] = "atexit_register"
    /\ IF Callable(remove_lock_returns)
          THEN Goto(p, Return("create_lock"))
          ELSE Exit(p, 1, "TypeError")
    /\ UNCHANGED <<lockFile, files, args, lockFd, reload_required, attempts, daemon>>

----------------------------------------------------------------------------
\* Controller client, lines 124-157 and 287-302

\* What a request to the controller can come to.
Responses == {"2xx", "4xx", "5xx", "transport"}

\* requests.post / requests.get followed by response.raise_for_status():
\* the exception class raised, "none" for a 2xx answer.
Raises(resp) ==
    CASE resp = "2xx" -> "none"
      [] resp \in {"4xx", "5xx"} -> "HTTPError"
      [] OTHER -> "ConnectionError"

\* isinstance(exc, cls) in the hierarchy of requests.exceptions:
\* HTTPError and ConnectionError derive from RequestException, an IOError.
IsInstance(exc, cls) ==
    \/ exc = cls
    \/ exc \in {"HTTPError", "ConnectionError"} /\ cls \in {"RequestException", "IOError"}

\* The except clauses of get_lock (line 131), get_config (lines 149, 154)
\* and inform_ixp_manager (line 297).
get_lock_except == {"HTTPError"}
get_config_except == {"HTTPError", "IOError"}
inform_except == {"HTTPError"}

Caught(exc, clauses) == \E cls \in clauses : IsInstance(exc, cls)

\* Lines 124-134.
GetLock(p) ==
    /\ pc[p] = "get_lock"
    /\ \E resp \in Responses :
        LET exc == Raises(resp) IN
        IF exc = "none"
           THEN GotoLog(p, Return("get_lock"), "lock_2xx")
           ELSE IF Caught(exc, get_lock_except)
                   THEN Exit(p, 200, "lock_" \o resp)
                   ELSE Exit(p, 1, "lock_" \o resp)
    /\ UNCHANGED <<lockFile, files, args, lockFd, reload_required, attempts, daemon>>

\* Lines 138-157.  Both handlers end with sys.exit(), status 0.  open(dest, "w")
\* may fail (IOError, dest as it was) and so may the write (dest left empty).
GetConfig(p) ==
    /\ pc[p] = "get_config"
    /\ \E resp \in Responses, body \in Bodies, io \in {"ok", "open", "write"} :
        LET exc == Raises(resp) IN
        IF exc # "none"
           THEN /\ IF Caught(exc, get_config_except)
                      THEN Exit(p, 0, "fetch_" \o resp)
                      ELSE Exit(p, 1, "fetch_" \o resp)
                /\ UNCHANGED files
           ELSE CASE io = "ok" ->
                       /\ files' = [files EXCEPT !["dest"] = File(body)]
                       /\ GotoLog(p, Return("get_config"), "fetch_2xx")
                  [] io = "open" ->
                       /\ UNCHANGED files
                       /\ Exit(p, 0, "fetch_ioerror")
                  [] OTHER ->
                       /\ files' = [files EXCEPT !["dest"] = File(<<>>)]
                       /\ Exit(p, 0, "fetch_ioerror")
    /\ UNCHANGED <<lockFile, args, lockFd, reload_required, attempts, daemon>>

----------------------------------------------------------------------------
\* Config validator, lines 161-186

\* Variant of IsValidFile: the protocol markers are not counted.
IsValidFile_SizeOnly(p) ==
    /\ pc[p] = "is_valid_file"
    /\ LET dest == files["dest"] IN
       IF ~dest.exists \/ getsize(dest) = 0
          THEN Exit(p, 3, "staged_missing_or_empty")
          ELSE GotoLog(p, Return("is_valid_file"), "is_valid_file_ok")
    /\ UNCHANGED <<lockFile, files, args, lockFd, reload_required, attempts, daemon>>

\* Lines 161-173.
IsValidFile(p) ==
    /\ pc[p] = "is_valid_file"
    /\ LET dest == files["dest"] IN
       IF ~dest.exists \/ getsize(dest) = 0
          THEN Exit(p, 3, "staged_missing_or_empty")
          ELSE IF count(dest.data) < 2
                  THEN Exit(p, 4, "few_markers")
                  ELSE GotoLog(p, Return("is_valid_file"), "is_valid_file_ok")
    /\ UNCHANGED <<lockFile, files, args, lockFd, reload_required, attempts, daemon>>

\* Variant of ParseConfig: the exit status of the syntax check is ignored.
ParseConfig_IgnoresStatus(p) ==
    /\ pc[p] = "parse_config"
    /\ GotoLog(p, Return("parse_config"), "parse_config_ok")
    /\ UNCHANGED <<lockFile, files, args, lockFd, reload_required, attempts, daemon>>

\* Lines 177-186: `bird -p -c dest`; a missing dest fails the command too.
ParseConfig(p) ==
    /\ pc[p] = "parse_config"
    /\ LET dest == files["dest"] IN
       IF dest.exists /\ BirdParses(dest.data)
          THEN GotoLog(p, Return("parse_config"), "parse_config_ok")
          ELSE Exit(p, 7, "syntax_failed")
    /\ UNCHANGED <<lockFile, files, args, lockFd, reload_required, attempts, daemon>>

----------------------------------------------------------------------------
\* Change detector, lines 191-223

\* `not line.strip()[0]` for a line that does not strip to "": the first
\* character is a one-character string, which is never falsy.
FirstCharFalsy(line) == FALSE

RECURSIVE FilterLoop(_, _)
\* The loop of lines 195-197 over the lines left, filtered_file so far.
\* line.strip()[0] raises IndexError on a line that strips to "".
FilterLoop(lines, filtered_file) ==
    IF lines = <<>>
       THEN [raised |-> "none", value |-> filtered_file]
       ELSE IF StripsToEmpty(Head(lines))
               THEN [raised |-> "IndexError", value |-> filtered_file]
               ELSE IF FirstCharFalsy(Head(lines))
                       THEN FilterLoop(Tail(lines), Append(filtered_file, Head(lines)))
                       ELSE FilterLoop(Tail(lines), filtered_file)

\* Lines 191-198; the result is a str.
filter_comments(f) == FilterLoop(f.data, <<>>)

\* hash.update(x) takes bytes-like objects and raises TypeError on a str.
HashUpdateRaises(type) == type = "str"

\* Lines 207-213: one hash object takes both updates, so the second digest
\* is that of the two inputs together (SHA-256 taken as collision free).
HashesEqual(cfile_filtered, dest_filtered) ==
    cfile_filtered = cfile_filtered \o dest_filtered

\* os.copyfile (line 218) is no function of the os module.
os_has_copyfile == FALSE

\* Variant of DetectChange: the bootstrap branch leaves a copy of the promoted
\* file at the backup path; a run with an active file ends as in DetectChange.
DetectChange_BootstrapBackup(p) ==
    /\ pc[p] = "detect_change"
    /\ IF files["cfile"].exists
          THEN /\ Exit(p, 1, "TypeError")
               /\ UNCHANGED <<files, reload_required>>
          ELSE /\ files' = [files EXCEPT !["cfile"] = files["dest"],
                                         !["old"] = files["dest"],
                                         !["dest"] = NoFile]
               /\ reload_required' = [reload_required EXCEPT ![p] = 1]
               /\ GotoLog(p, Return("detect_change"), "promoted")
    /\ UNCHANGED <<lockFile, args, lockFd, attempts, daemon>>

\* Lines 202-223, and lines 340-341 of main() on its return.
DetectChange(p) ==
    /\ pc[p] = "detect_change"
    /\ LET cfile == files["cfile"]
           dest == files["dest"]
           cf == filter_comments(cfile)
           df == filter_comments(dest)
           ret(value, event) ==
               /\ reload_required' =
                    [reload_required EXCEPT ![p] = IF args[p].force THEN 1 ELSE value]
               /\ GotoLog(p, Return("detect_change"), event)
       IN
       IF cfile.exists
          THEN IF cf.raised # "none" \/ df.raised # "none"
                  THEN /\ Exit(p, 1, "IndexError")
                       /\ UNCHANGED <<files, reload_required>>
                  ELSE IF HashUpdateRaises("str")
                          THEN /\ Exit(p, 1, "TypeError")
                               /\ UNCHANGED <<files, reload_required>>
                          ELSE IF HashesEqual(cf.value, df.value)
                                  THEN /\ files' = [files EXCEPT !["dest"] = NoFile]
                                       /\ ret(0, "no_change")
                                  ELSE IF os_has_copyfile
                                          THEN /\ files' = [files EXCEPT
                                                              !["old"] = cfile,
                                                              !["cfile"] = dest,
                                                              !["dest"] = NoFile]
                                               /\ ret(1, "promoted")
                                          ELSE /\ Exit(p, 1, "AttributeError")
                                               /\ UNCHANGED <<files, reload_required>>
          ELSE /\ files' = [files EXCEPT !["cfile"] = dest, !["dest"] = NoFile]
               /\ ret(1, "promoted")
    /\ UNCHANGED <<lockFile, args, lockFd, attempts, daemon>>

----------------------------------------------------------------------------
\* Reload orchestrator, lines 228-283

\* Parameters of revert_config (line 228) and arguments of its call (line 280).
revert_config_params == 3

\* Variant of revert_config_args: the call passes what the function takes.
revert_config_args_Matching == revert_config_params

revert_config_args == 5

\* Variant of ReloadIfNeeded: reload_required is tested before the probe's result.
ReloadIfNeeded_ReloadFirst(p) ==
    /\ pc[p] = "reload_if_needed"
    /\ IF reload_required[p] # 0
          THEN GotoLog(p, "configure", "probe_running")
          ELSE IF ~daemon
                  THEN GotoLog(p, "start", "probe_not_running")
                  ELSE GotoLog(p, Return("reload_if_needed"), "skipped")
    /\ UNCHANGED <<lockFile, files, args, lockFd, reload_required, attempts, daemon>>

\* Lines 250-257, 269, 282: `birdc show status` returns 0 iff bird is running.
ReloadIfNeeded(p) ==
    /\ pc[p] = "reload_if_needed"
    /\ IF ~daemon
          THEN GotoLog(p, "start", "probe_not_running")
          ELSE IF reload_required[p] # 0
                  THEN GotoLog(p, "configure", "probe_running")
                  ELSE GotoLog(p, Return("reload_if_needed"), "skipped")
    /\ UNCHANGED <<lockFile, files, args, lockFd, reload_required, attempts, daemon>>

\* Lines 258-266: `bird -c cfile -s socket`.
StartDaemon(p) ==
    /\ pc[p] = "start"
    /\ \E ok \in BOOLEAN :
        IF ok
           THEN /\ daemon' = TRUE
                /\ GotoLog(p, Return("reload_if_needed"), "start_ok")
           ELSE /\ UNCHANGED daemon
                /\ Exit(p, 5, "start_failed")
    /\ UNCHANGED <<lockFile, files, args, lockFd, reload_required, attempts>>

\* Lines 270-280: `birdc configure`; on failure revert_config is called with
\* five arguments, a TypeError unless it takes five.
Configure(p) ==
    /\ pc[p] = "configure"
    /\ \E ok \in BOOLEAN :
        IF ok
           THEN GotoLog(p, Return("reload_if_needed"), "configure_ok")
           ELSE IF revert_config_args = revert_config_params
                   THEN GotoLog(p, "revert_config", "configure_failed")
                   ELSE Exit(p, 1, "configure_failed")
    /\ UNCHANGED <<lockFile, files, args, lockFd, reload_required, attempts, daemon>>

\* os.move (lines 231, 232) is no function of the os module.
os_has_move == FALSE

\* f"{cfile}.conf", the source of the move of line 231: a path no statement
\* of the program writes.
cfile_conf == NoFile

\* Lines 228-246, entered with three arguments.  Without a backup the function
\* returns at once; with one, line 231 raises AttributeError, uncaught.  Were
\* os.move there, the missing source of line 231 would raise FileNotFoundError
\* outside the try; lines 232-246 restore the backup and reconfigure.
RevertConfig(p) ==
    /\ pc[p] = "revert_config"
    /\ IF ~files["old"].exists
          THEN /\ GotoLog(p, Return("reload_if_needed"), "revert_no_backup")
               /\ UNCHANGED files
          ELSE IF ~os_has_move
                  THEN /\ Exit(p, 1, "AttributeError")
                       /\ UNCHANGED files
                  ELSE IF ~cfile_conf.exists
                          THEN /\ Exit(p, 1, "FileNotFoundError")
                               /\ UNCHANGED files
                          ELSE /\ files' = [files EXCEPT !["failed"] = cfile_conf,
                                                         !["cfile"] = files["old"],
                                                         !["old"] = NoFile]
                               /\ \E ok \in BOOLEAN :
                                    IF ok
                                       THEN GotoLog(p, Return("reload_if_needed"),
                                                    "rollback_ok")
                                       ELSE Exit(p, 6, "rollback_failed")
    /\ UNCHANGED <<lockFile, args, lockFd, reload_required, attempts, daemon>>

----------------------------------------------------------------------------
\* Completion report and exit, lines 287-302 and 348

\* Lines 292-302: one pass of the loop.  An HTTP error status is logged and
\* retried after time.sleep(60); any other exception leaves the function.
InformIxpManager(p) ==
    /\ pc[p] = "inform_ixp_manager"
    /\ \E resp \in Responses :
        LET exc == Raises(resp) IN
        IF exc = "none"
           THEN /\ GotoLog(p, Return("inform_ixp_manager"), "report_2xx")
                /\ UNCHANGED attempts
           ELSE IF Caught(exc, inform_except)
                   THEN /\ attempts[p] < MaxAttempts
                        /\ attempts' = [attempts EXCEPT ![p] = @ + 1]
                        /\ GotoLog(p, "inform_ixp_manager", "report_" \o resp)
                   ELSE /\ Exit(p, 1, "report_" \o resp)
                        /\ UNCHANGED attempts
    /\ UNCHANGED <<lockFile, files, args, lockFd, reload_required, daemon>>

\* Line 348.
SysExit(p) ==
    /\ pc[p] = "sys_exit"
    /\ Exit(p, 0, "sys_exit_0")
    /\ UNCHANGED <<lockFile, files, args, lockFd, reload_required, attempts, daemon>>

----------------------------------------------------------------------------
\* The program

Init ==
    /\ lockFile = NoFile
    /\ files = [path \in ConfigPaths |-> NoFile]
    /\ pc = [p \in Procs |-> "parse_args"]
    /\ exitCode = [p \in Procs |-> -1]
    /\ args = [p \in Procs |-> [handle |-> FALSE, force |-> FALSE]]
    /\ lockFd = [p \in Procs |-> FALSE]
    /\ reload_required = [p \in Procs |-> 0]
    /\ attempts = [p \in Procs |-> 0]
    /\ daemon = FALSE
    /\ hist = [p \in Procs |-> <<>>]

Next ==
    \E p \in Procs :
        \/ ParseArgs(p)
        \/ CreateDirectories(p)
        \/ CreateLockExists(p)
        \/ CreateLockOpen(p)
        \/ CreateLockWrite(p)
        \/ RemoveLockExists(p)
        \/ RemoveLockRemove(p)
        \/ AtexitRegister(p)

Spec == Init /\ [][Next]_vars

----------------------------------------------------------------------------
\* main() from line 331, one run after the other

\* Configurations the active and backup paths may hold before the first run.
InstalledConfigs ==
    { <<BgpLine, BgpLine>>, <<BgpLine, BlankLine, BgpLine>> }

\* Run p enters line 331 with -H given, once the run before it has ended;
\* the record of that ended process is dropped (it has been waited for),
\* but for the note that it promoted a configuration.
EnterBody(p) ==
    /\ pc[p] = "idle"
    /\ \A q \in Procs : q < p => pc[q] \in {"exited", "reaped"}
    /\ \E force \in BOOLEAN :
        args' = [q \in Procs |->
                    IF q = p THEN [handle |-> TRUE, force |-> force]
                             ELSE [handle |-> FALSE, force |-> FALSE]]
    /\ pc' = [q \in Procs |->
                 IF q = p THEN Return("create_lock")
                 ELSE IF q < p THEN "reaped" ELSE pc[q]]
    /\ exitCode' = [q \in Procs |-> -1]
    /\ hist' = [q \in Procs |->
                   IF \E i \in 1..Len(hist[q]) :
                         hist[q][i] \in {"promoted", "promoted_earlier"}
                      THEN <<"promoted_earlier">>
                      ELSE <<>>]
    /\ reload_required' = [q \in Procs |-> 0]
    /\ attempts' = [q \in Procs |-> 0]
    /\ UNCHANGED <<lockFile, files, lockFd, daemon>>

InitBody ==
    /\ lockFile = NoFile
    /\ \E active \in {NoFile} \cup {File(c) : c \in InstalledConfigs},
          backup \in {NoFile} \cup {File(c) : c \in InstalledConfigs} :
        files = [path \in ConfigPaths |->
                    CASE path = "cfile" -> active
                      [] path = "old" -> backup
                      [] OTHER -> NoFile]
    /\ pc = [p \in Procs |-> "idle"]
    /\ exitCode = [p \in Procs |-> -1]
    /\ args = [p \in Procs |-> [handle |-> FALSE, force |-> FALSE]]
    /\ lockFd = [p \in Procs |-> FALSE]
    /\ reload_required = [p \in Procs |-> 0]
    /\ attempts = [p \in Procs |-> 0]
    /\ daemon \in BOOLEAN
    /\ hist = [p \in Procs |-> <<>>]

NextBody ==
    \E p \in Procs :
        \/ EnterBody(p)
        \/ GetLock(p)
        \/ GetConfig(p)
        \/ IsValidFile(p)
        \/ ParseConfig(p)
        \/ DetectChange(p)
        \/ ReloadIfNeeded(p)
        \/ StartDaemon(p)
        \/ Configure(p)
        \/ InformIxpManager(p)
        \/ SysExit(p)

SpecBody == InitBody /\ [][NextBody]_vars

\* The same runs for a handle that has neither an active configuration nor
\* a backup yet.
InitFresh ==
    /\ InitBody
    /\ ~files["cfile"].exists
    /\ ~files["old"].exists

SpecFresh == InitFresh /\ [][NextBody]_vars

----------------------------------------------------------------------------
\* The functions called one at a time: main() entered at the call of
\* is_valid_file, detect_change, reload_if_needed or revert_config, with the
\* files, the daemon and the arguments of the call drawn from bounded sets.

Lines == {BgpLine, CommentLine, BlankLine, OtherLine, BrokenLine}

\* Every configuration of at most MaxLines lines.
Contents == UNION {[1..n -> Lines] : n \in 0..MaxLines}

AnyFile == {File(c) : c \in Contents}
InstalledFile == {File(c) : c \in InstalledConfigs}

InitFn ==
    /\ lockFile = NoFile
    /\ daemon \in BOOLEAN
    /\ \E entry \in {"is_valid_file", "detect_change", "reload_if_needed", "revert_config"},
          active \in {NoFile} \cup AnyFile,
          staged \in {NoFile} \cup AnyFile,
          backup \in {NoFile} \cup InstalledFile,
          rr \in {0, 1},
          force \in BOOLEAN :
        /\ CASE entry = "is_valid_file" ->
                  active \in {NoFile} \cup InstalledFile /\ backup = NoFile
                  /\ rr = 0 /\ ~force
             [] entry = "detect_change" ->
                  staged # NoFile /\ rr = 0 /\ ~force
             [] entry = "reload_if_needed" ->
                  active \in InstalledFile /\ staged = NoFile /\ ~force
             [] OTHER ->
                  active \in InstalledFile /\ staged = NoFile /\ rr = 1 /\ ~force
                  /\ daemon
        /\ files = [path \in ConfigPaths |->
                      CASE path = "cfile" -> active
                        [] path = "dest" -> staged
                        [] path = "old" -> backup
                        [] OTHER -> NoFile]
        /\ pc = [p \in Procs |-> IF p = 1 THEN entry ELSE "idle"]
        /\ reload_required = [p \in Procs |-> IF p = 1 THEN rr ELSE 0]
        /\ args = [p \in Procs |-> [handle |-> p = 1, force |-> force]]
    /\ exitCode = [p \in Procs |-> -1]
    /\ lockFd = [p \in Procs |-> FALSE]
    /\ attempts = [p \in Procs |-> 0]
    /\ hist = [p \in Procs |-> <<>>]

NextFn ==
    \E p \in Procs :
        \/ IsValidFile(p)
        \/ ParseConfig(p)
        \/ DetectChange(p)
        \/ ReloadIfNeeded(p)
        \/ StartDaemon(p)
        \/ Configure(p)
        \/ RevertConfig(p)
        \/ InformIxpManager(p)
        \/ SysExit(p)

SpecFn == InitFn /\ [][NextFn]_vars

----------------------------------------------------------------------------
\* Observations the properties are stated on

Events(p) == {hist[p][i] : i \in 1..Len(hist[p])}

Exited(p) == pc[p] = "exited"

\* The run has taken the else branch of create_lock and written its pid
\* (line 119) and its process has not yet ended.
Holding(p) == "marker_written" \in Events(p) /\ ~Exited(p)

\* Every occurrence in h of an event of B comes after an occurrence of a.
Precedes(h, a, B) ==
    \A j \in 1..Len(h) : h[j] \in B => \E i \in 1..(j - 1) : h[i] = a

LockFailures == {"lock_4xx", "lock_5xx", "lock_transport"}
FetchEvents == {"fetch_2xx", "fetch_4xx", "fetch_5xx", "fetch_transport", "fetch_ioerror"}
FetchFailures == FetchEvents \ {"fetch_2xx"}
ValidationEvents ==
    {"staged_missing_or_empty", "few_markers", "is_valid_file_ok",
     "syntax_failed", "parse_config_ok"}
ValidationFailures == {"staged_missing_or_empty", "few_markers", "syntax_failed"}
DaemonCommands == {"start_ok", "start_failed", "configure_ok", "configure_failed"}
DaemonFailures == {"start_failed", "configure_failed"}
ReloadFinished == {"start_ok", "configure_ok", "skipped"}
ReportEvents == {"report_2xx", "report_4xx", "report_5xx", "report_transport"}

----------------------------------------------------------------------------
\* C1: for every interleaving of runs for the same handle, at most one run
\* is between a successful create_lock and its process exit, and a run
\* turned away by the marker exits with 1 having done nothing else.
C1_MutualExclusion ==
    /\ Cardinality({p \in Procs : Holding(p)}) <= 1
    /\ \A p \in Procs :
         "lock_held" \in Events(p) =>
            Exited(p) /\ exitCode[p] = 1 /\ hist[p] = <<"lock_held">>

\* C2: from the moment create_lock has written the marker until the owning
\* process exits, the marker file exists and holds the owner's pid.
C2_MarkerHeldForWholeRun ==
    \A p \in Procs : Holding(p) => lockFile = File(<<getpid(p)>>)

C10_SecondAcquireNoSideEffects ==
    [][\A p \in Procs :
         (pc[p] = "create_lock" /\ lockFile.exists /\ pc'[p] # pc[p])
            => /\ pc'[p] = "exited"
               /\ exitCode'[p] = 1
               /\ lockFile' = lockFile
               /\ files' = files]_vars

\* A run was turned away by a marker that another run wrote and that is
\* still there with that run's pid.
C10_Witness ==
    \E p, q \in Procs :
        /\ p # q
        /\ Exited(p) /\ exitCode[p] = 1 /\ hist[p] = <<"lock_held">>
        /\ lockFile = File(<<getpid(q)>>)

----------------------------------------------------------------------------
\* C4: in every run the remote lock is acquired before the fetch, the fetch
\* completes before any validation check, all validation checks pass before
\* the staged file is promoted, promotion comes before any start or
\* reconfigure command, and report-done is sent only after the reload stage
\* has finished.
C4_StageOrdering ==
    \A p \in Procs :
        LET h == hist[p] IN
        /\ Precedes(h, "lock_2xx", FetchEvents)
        /\ Precedes(h, "fetch_2xx", ValidationEvents)
        /\ Precedes(h, "is_valid_file_ok", {"parse_config_ok", "syntax_failed", "promoted"})
        /\ Precedes(h, "parse_config_ok", {"promoted", "no_change"})
        /\ \A j \in 1..Len(h) :
             h[j] \in DaemonCommands =>
                /\ \E i \in 1..(j - 1) : h[i] \in {"promoted", "no_change"}
                /\ \A k \in (j + 1)..Len(h) : h[k] # "promoted"
        /\ \A j \in 1..Len(h) :
             h[j] \in ReportEvents => \E i \in 1..(j - 1) : h[i] \in ReloadFinished

\* A run has gone through every stage: promoted, started the daemon and had
\* its report acknowledged.
C4_Witness ==
    \E p \in Procs :
        /\ Exited(p)
        /\ {"lock_2xx", "fetch_2xx", "parse_config_ok", "promoted",
            "start_ok", "report_2xx"} \subseteq Events(p)

\* C5: with the active file absent or valid initially, in every reachable
\* state the content at the active path is content that passed the three
\* validation checks (non-empty, at least 2 protocol markers, syntax check).
C5_ActiveIsValidated ==
    files["cfile"].exists => Validated(files["cfile"].data)

\* A run has promoted a fetched configuration that carries a comment line
\* to the active path.
C5_Witness ==
    /\ \E p \in Procs : "promoted" \in Events(p)
    /\ files["cfile"] = File(<<CommentLine, BgpLine, BgpLine>>)

\* C6: a run exits with code 0 only if the remote lock was acquired, the
\* fetch succeeded, validation passed, every daemon command it issued
\* succeeded and report-done was acknowledged; a run that ended on a fatal
\* failure, a failed fetch in particular, has a non-zero exit code.
C6_ExitZeroMeansSuccess ==
    \A p \in Procs :
        (Exited(p) /\ exitCode[p] = 0) =>
            /\ {"lock_2xx", "fetch_2xx", "is_valid_file_ok", "parse_config_ok",
                "report_2xx"} \subseteq Events(p)
            /\ Events(p) \cap (LockFailures \cup FetchFailures \cup ValidationFailures
                               \cup DaemonFailures) = {}

\* C7: a failed run terminates with the code of its failure class: 1 marker
\* held or handle missing, 200 remote update lock unavailable, 3 staged file
\* missing or empty, 4 fewer than 2 protocol markers, 7 syntax check failed,
\* 5 daemon start failed.
C7_ExitCodePerFailureClass ==
    \A p \in Procs :
        Exited(p) =>
            LET last == hist[p][Len(hist[p])] IN
            /\ last \in {"lock_held", "no_handle"} => exitCode[p] = 1
            /\ last \in LockFailures => exitCode[p] = 200
            /\ last = "staged_missing_or_empty" => exitCode[p] = 3
            /\ last = "few_markers" => exitCode[p] = 4
            /\ last = "syntax_failed" => exitCode[p] = 7
            /\ last = "start_failed" => exitCode[p] = 5

\* C8: when the acquire-update-lock POST fails, with a 4xx answer, a 5xx
\* answer or a transport error, the run ends at once with exit code 200:
\* no retry, no fetch, no validation, no promotion, no daemon command and
\* no report-done.
C8_RemoteLockFailureFatal ==
    \A p \in Procs :
        Events(p) \cap LockFailures # {} =>
            /\ Exited(p)
            /\ exitCode[p] = 200
            /\ Len(hist[p]) = 1

\* C9: once the reload stage has completed the process does not exit before
\* a report-done POST has succeeded, whatever the failed attempts were, and
\* then it exits with code 0.
C9_ReportDoneNeverGivesUp ==
    \A p \in Procs :
        (Exited(p) /\ Events(p) \cap ReloadFinished # {}) =>
            /\ "report_2xx" \in Events(p)
            /\ exitCode[p] = 0

----------------------------------------------------------------------------
\* Whole-line comments: lines whose first non-blank character is '#'.
IsCommentLine(line) == line = CommentLine

WithoutComments(contents) == SelectSeq(contents, LAMBDA line : ~IsCommentLine(line))

\* The two contents differ at most in whole-line comments.
DifferOnlyInComments(a, b) == WithoutComments(a) = WithoutComments(b)

\* Run p leaves the statement it is at in this step.
Leaves(p, stage) == pc[p] = stage /\ pc'[p] # stage

\* C11: for every pair of existing active content and staged content that
\* differ only in whole-line comments, detect_change returns NoChange (0),
\* deletes the staged file and leaves the active file and the backup alone.
C11_CommentOnlyIsNoChange ==
    [][\A p \in Procs :
         (/\ Leaves(p, "detect_change")
          /\ files["cfile"].exists /\ files["dest"].exists
          /\ DifferOnlyInComments(files["cfile"].data, files["dest"].data))
            => /\ hist'[p] = Append(hist[p], "no_change")
               /\ pc'[p] = Return("detect_change")
               /\ ~args[p].force => reload_required'[p] = 0
               /\ files' = [files EXCEPT !["dest"] = NoFile]]_vars

\* C12: for every pair of existing active content and staged content that
\* differ in a non-comment line, detect_change returns Changed (1); afterwards
\* the active file holds the staged content, the .old backup holds the prior
\* active content and the staging path holds no file.
C12_ChangeIsPromoted ==
    [][\A p \in Procs :
         (/\ Leaves(p, "detect_change")
          /\ files["cfile"].exists /\ files["dest"].exists
          /\ ~DifferOnlyInComments(files["cfile"].data, files["dest"].data))
            => /\ hist'[p] = Append(hist[p], "promoted")
               /\ pc'[p] = Return("detect_change")
               /\ reload_required'[p] = 1
               /\ files' = [files EXCEPT !["cfile"] = files["dest"],
                                         !["old"] = files["cfile"],
                                         !["dest"] = NoFile]]_vars

\* C15: on a reconfigure failure after a promotion, with a backup on disk,
\* the rollback leaves the prior (backed-up) content at the active path and
\* the rejected new content at <staging-path>.failed, and issues reconfigure
\* exactly once more.
C15_RollbackFileEffects ==
    [][\A p \in Procs :
         (Leaves(p, "revert_config") /\ files["old"].exists)
            => /\ files'["cfile"] = files["old"]
               /\ files'["failed"] = files["cfile"]
               /\ \E e \in {"rollback_ok", "rollback_failed"} :
                    hist'[p] = Append(hist[p], e)]_vars

StartEvents == {"start_ok", "start_failed"}
ConfigureEvents == {"configure_ok", "configure_failed", "rollback_ok", "rollback_failed"}

\* How many events of h are in the set E.
Occurrences(h, E) == Cardinality({i \in 1..Len(h) : h[i] \in E})

\* C18: when the status probe finds the daemon not running, reload_if_needed
\* issues start exactly once and never reconfigure, whatever reload_required
\* is; when the daemon runs and reload_required is false it issues neither.
C18_CommandDiscipline ==
    [][\A p \in Procs :
         /\ Leaves(p, "reload_if_needed") =>
              IF ~daemon
                 THEN pc'[p] = "start"
                 ELSE reload_required[p] = 0 =>
                        /\ pc'[p] = Return("reload_if_needed")
                        /\ hist'[p] = Append(hist[p], "skipped")
         /\ Leaves(p, "start") =>
              /\ pc'[p] \in {"exited", Return("reload_if_needed")}
              /\ Occurrences(hist'[p], StartEvents) = 1
         /\ Events(p) \cap {"probe_not_running", "skipped"} # {} =>
              /\ Occurrences(hist'[p], ConfigureEvents) = 0
              /\ pc'[p] # "configure"
         /\ "skipped" \in Events(p) => Occurrences(hist'[p], StartEvents) = 0]_vars

\* reload_if_needed was called with reload_required false and the daemon
\* running, and has returned without a command.
C18_Witness ==
    \E p \in Procs :
        /\ reload_required[p] = 0 /\ daemon
        /\ "skipped" \in Events(p)
        /\ pc[p] = Return("reload_if_needed")

\* C19: a missing or zero-byte staged file is rejected with exit code 3 and a
\* non-empty one with fewer than 2 protocol markers with exit code 4; in both
\* cases the syntax check is not invoked and staged, active and backup files
\* stay as they are.
C19_ValidatorRejectsEarly ==
    [][\A p \in Procs :
         Leaves(p, "is_valid_file") =>
            LET dest == files["dest"]
                rejected(code) ==
                    /\ pc'[p] = "exited"
                    /\ exitCode'[p] = code
                    /\ files' = files
                    /\ Events(p) \cap {"parse_config_ok", "syntax_failed"} = {}
                    /\ hist'[p][Len(hist'[p])] \notin {"parse_config_ok", "syntax_failed"}
            IN  /\ (~dest.exists \/ Len(dest.data) = 0) => rejected(3)
                /\ (dest.exists /\ Len(dest.data) > 0 /\ count(dest.data) < 2)
                      => rejected(4)]_vars

\* is_valid_file has rejected a missing staged file.
C19_Witness ==
    \E p \in Procs :
        /\ Exited(p) /\ exitCode[p] = 3
        /\ hist[p] = <<"staged_missing_or_empty">>
        /\ ~files["dest"].exists

----------------------------------------------------------------------------
\* C13: if the daemon is running, a reconfigure is issued and fails and no
\* <active>.old backup exists, the run ends with a non-zero exit code: it
\* does not go on to report-done and exit code 0.
C13_ReconfigureFailureWithoutBackupIsFatal ==
    \A p \in Procs :
        ("configure_failed" \in Events(p) /\ ~files["old"].exists) =>
            /\ Exited(p)
            /\ exitCode[p] # 0
            /\ Events(p) \cap ReportEvents = {}

\* A run has promoted its configuration, found the daemon running, had its
\* reconfigure refused with no backup on disk, and has ended.
C13_Witness ==
    \E p \in Procs :
        /\ Exited(p)
        /\ {"promoted", "probe_running", "configure_failed"} \subseteq Events(p)
        /\ ~files["old"].exists

\* C14: when reconfigure fails and a backup exists, the backup is restored
\* and reconfigure is issued again; if that succeeds (RolledBack) the run
\* still ends with a non-zero exit code, if it fails the run ends with
\* exit code 6.
C14_RollbackOutcome ==
    \A p \in Procs :
        (Exited(p) /\ "configure_failed" \in Events(p) /\ files["old"].exists) =>
            \/ "rollback_ok" \in Events(p) /\ exitCode[p] # 0
            \/ "rollback_failed" \in Events(p) /\ exitCode[p] = 6

\* C20: with the force-reload flag set and the daemon running, a reconfigure
\* is issued even when detect_change finds no change; the flag alone causes
\* no promotion and no backup (the staged file is deleted, active and backup
\* stay), and with the daemon not running start is issued, reconfigure not.
C20_ForceReloadOverridesDecision ==
    \A p \in Procs :
        (Exited(p) /\ args[p].force /\ "parse_config_ok" \in Events(p)) =>
            /\ (daemon /\ "probe_not_running" \notin Events(p))
                  => Events(p) \cap {"configure_ok", "configure_failed"} # {}
            /\ "no_change" \in Events(p) => ~files["dest"].exists
            /\ "probe_not_running" \in Events(p)
                  => Events(p) \cap ConfigureEvents = {}

----------------------------------------------------------------------------
\* The runs, ended or not, that have promoted a staged file to the active path.
Promoters ==
    {p \in Procs : Events(p) \cap {"promoted", "promoted_earlier"} # {}}

ScenarioDeviations ==
    {"no_handle", "mkdir_failed", "lock_held", "FileNotFoundError", "probe_running",
     "report_4xx", "report_5xx", "report_transport"}
        \cup LockFailures \cup FetchFailures \cup ValidationFailures \cup DaemonFailures

\* C17: a run for a handle with no marker and no active configuration, where
\* the controller grants the lock and serves a valid configuration, the
\* daemon is not running and starts, and report-done succeeds at once, ends
\* with exit code 0, the staged file promoted and the daemon started once.
C17_BootstrapRunSucceeds ==
    \A p \in Procs :
        (Exited(p) /\ Events(p) \cap ScenarioDeviations = {}) =>
            /\ exitCode[p] = 0
            /\ {"promoted", "start_ok", "report_2xx"} \subseteq Events(p)
            /\ Occurrences(hist[p], StartEvents) = 1

====
